---- MODULE Spec2Model ----
(***************************************************************************)
(* Model of src/lib.rs: CommandPipeline (the builder), its spawn algorithm *)
(* with rollback, Pipeline::join / join_with_output and Drop for Pipeline. *)
(* The operating system is an instrumented collaborator: every spawn, wait *)
(* and kill call the library makes is appended to os_log together with the *)
(* answer the OS gave.                                                     *)
(***************************************************************************)
EXTENDS Integers, Sequences, FiniteSets, TLC

\* ---------------------------------------------------------------- bounds
\* Largest number of stages (piped commands plus the tail) a builder holds.
MaxStages == 3

\* ------------------------------------------------------------ value sets
\* Programs a stage may name; spawning "nonexistent" fails.
Programs == {"prog", "nonexistent"}

OnDrop == {"Forget", "Wait", "Kill"}

\* Stdio values a caller passes to stdin()/stdout()/stderr().
Piped == [kind |-> "piped", pid |-> 0]
\* A Command's stream that was never set (std: inherit for spawn()).
Default == [kind |-> "default", pid |-> 0]
\* Option<Stdio>::None of the configuration.
None == [kind |-> "none", pid |-> 0]
\* The Stdio a ChildStdout handle converts into (the read end of p's pipe).
FromChild(h) == [kind |-> "child_stdout", pid |-> h.pid]

StdinCfgs == {Piped}
StdoutCfgs == {Piped}
StderrCfgs == {Piped}

\* Parent-side pipe handles (ChildStdin / ChildStdout / ChildStderr).
NoHandle == [pid |-> 0, fd |-> "none"]
Handle(p, fd) == [pid |-> p, fd |-> fd]

\* ExitStatus: exited with a code, or terminated by a signal.
NoStatus == [code |-> -1, signal |-> 0]
Exited(c) == [code |-> c, signal |-> 0]
Signaled(s) == [code |-> -1, signal |-> s]
ExitStatuses == {Exited(0), Exited(1), Signaled(9)}
\* ExitStatus::success
success(st) == st.signal = 0 /\ st.code = 0

\* io::Result<ExitStatus> / io::Result<()> as the OS answers a call.
Ok(st) == [ok |-> TRUE, status |-> st]
Err == [ok |-> FALSE, status |-> NoStatus]
WaitResults == {Ok(st) : st \in ExitStatuses} \cup {Err}
\* Answers to waits whose result the code discards (let _ = ...).
DiscardedWaitResults == {Ok(Exited(0)), Err}
KillResults == {Ok(NoStatus), Err}

\* Bytes the tail process writes to its standard output / standard error.
TailStdoutBytes == {<<"a", "b", "c">>}
TailStderrBytes == {<<"e">>}

\* One instrumented OS call.
Entry(by, op, pid, res) == [by |-> by, op |-> op, pid |-> pid, res |-> res]

\* ---------------------------------------------------------------- state
VARIABLES
    piped_commands,  \* CommandPipeline.piped_commands
    tail_command,    \* CommandPipeline.tail_command
    config,          \* CommandPipeline.config
    pipeline,        \* the Pipeline value spawn returned (NoPipeline before)
    phase,           \* "builder", "running", "spawn_failed", "joined", "dropped"
    result,          \* what the last terminal operation returned
    os_log,          \* every spawn / wait / kill call made, in order
    tail_wrote,      \* the bytes the tail process wrote to stdout / stderr
    calls,           \* builder operations called that leave no other trace in
                     \* the state: "on_drop" (it may set the value already there)
    io               \* the pipes and processes of the running pipeline, and how
                     \* far a blocking call of the parent has got (NoIO where
                     \* calls are taken as a whole)

vars == <<piped_commands, tail_command, config, pipeline, phase, result,
          os_log, tail_wrote, calls, io>>

\* Command::new
NewCommand(program) ==
    [program |-> program, stdin |-> Default, stdout |-> Default, stderr |-> Default]

\* CommandPipelineConfig::new
NewConfig ==
    [pipefail |-> FALSE, on_drop |-> "Wait", stdin |-> None, stdout |-> None]

NoChild == [pid |-> 0, stdin |-> NoHandle, stdout |-> NoHandle, stderr |-> NoHandle]

NoPipeline ==
    [piped_processes |-> <<>>, tail_process |-> NoChild,
     config |-> [pipefail |-> FALSE, on_drop |-> "Forget"],
     stdin |-> NoHandle, stdout |-> NoHandle, stderr |-> NoHandle]

NoResult ==
    [kind |-> "none", status |-> NoStatus, stdout |-> <<>>, stderr |-> <<>>, err_pid |-> 0]
OkStatus(st) == [NoResult EXCEPT !.kind = "status", !.status = st]
OkOutput(st, out, err) ==
    [NoResult EXCEPT !.kind = "output", !.status = st, !.stdout = out, !.stderr = err]
SpawnError(p) == [NoResult EXCEPT !.kind = "spawn_error", !.err_pid = p]
WaitError(p) == [NoResult EXCEPT !.kind = "wait_error", !.err_pid = p]

NoBytes == [out |-> <<>>, err |-> <<>>]
\* No pipeline is being run step by step.
NoIO == [op |-> "none", pc |-> 0, src |-> 0, buf |-> <<>>, exited |-> {},
         eof |-> FALSE, out |-> 0]

\* CommandPipeline::new(program)
Init ==
    /\ piped_commands = <<>>
    /\ tail_command \in {NewCommand(p) : p \in Programs}
    /\ config = NewConfig
    /\ pipeline = NoPipeline
    /\ phase = "builder"
    /\ result = NoResult
    /\ os_log = <<>>
    /\ tail_wrote = NoBytes
    /\ calls = {}
    /\ io = NoIO

\* ------------------------------------------------------ builder operations
\* CommandPipeline::stdin
stdin(cfg) ==
    /\ phase = "builder"
    /\ config' = [config EXCEPT !.stdin = cfg]
    /\ UNCHANGED <<calls, piped_commands, tail_command, pipeline, phase, result, os_log, tail_wrote, io>>

\* CommandPipeline::stdout
stdout(cfg) ==
    /\ phase = "builder"
    /\ config' = [config EXCEPT !.stdout = cfg]
    /\ UNCHANGED <<calls, piped_commands, tail_command, pipeline, phase, result, os_log, tail_wrote, io>>

\* CommandPipeline::stderr
stderr(cfg) ==
    /\ phase = "builder"
    /\ tail_command' = [tail_command EXCEPT !.stderr = cfg]
    /\ UNCHANGED <<calls, piped_commands, config, pipeline, phase, result, os_log, tail_wrote, io>>

\* CommandPipeline::on_drop
on_drop(cfg) ==
    /\ phase = "builder"
    /\ config' = [config EXCEPT !.on_drop = cfg]
    /\ calls' = calls \cup {"on_drop"}
    /\ UNCHANGED <<piped_commands, tail_command, pipeline, phase, result, os_log, tail_wrote, io>>

\* CommandPipeline::pipe
pipe(program) ==
    /\ phase = "builder"
    /\ Len(piped_commands) + 1 < MaxStages
    /\ piped_commands' = Append(piped_commands, tail_command)
    /\ tail_command' = NewCommand(program)
    /\ UNCHANGED <<calls, config, pipeline, phase, result, os_log, tail_wrote, io>>

\* ------------------------------------------------------------------ spawn
\* std Command::spawn succeeds unless the program cannot be started.
CanSpawn(command) == command.program # "nonexistent"

\* The Child that std Command::spawn returns for process p: the parent gets a
\* pipe handle for exactly the streams the command set to Stdio::piped().
CommandSpawn(command, p) ==
    [pid |-> p,
     stdin |-> IF command.stdin = Piped THEN Handle(p, "stdin") ELSE NoHandle,
     stdout |-> IF command.stdout = Piped THEN Handle(p, "stdout") ELSE NoHandle,
     stderr |-> IF command.stderr = Piped THEN Handle(p, "stderr") ELSE NoHandle]

\* std Child::wait as the log sees it, for a wait whose answer is res.
WaitEntry(by, process, res) == Entry(by, "wait", process.pid, res)

post_error_wait_all_skip_first(processes, w) ==
    [i \in 1..(Len(processes) - 1) |-> WaitEntry("spawn", processes[i + 1], w[i + 1])]

\* post_error_wait_all: waits on every process, discarding the answers.
post_error_wait_all(processes, w) ==
    [i \in 1..Len(processes) |-> WaitEntry("spawn", processes[i], w[i])]

RECURSIVE try_spawn_commands_unforced(_, _, _, _, _)
try_spawn_commands_unforced(commands, i, last_stdout, piped_processes, log) ==
    IF i > Len(commands)
    THEN [ok |-> TRUE, commands |-> commands, last_stdout |-> last_stdout,
          piped_processes |-> piped_processes, log |-> log, failed |-> 0]
    ELSE LET command == IF last_stdout # NoHandle
                        THEN [commands[i] EXCEPT !.stdin = FromChild(last_stdout)]
                        ELSE commands[i]
             commands1 == [commands EXCEPT ![i] = command]
         IN IF ~CanSpawn(command)
            THEN [ok |-> FALSE, commands |-> commands1, last_stdout |-> NoHandle,
                  piped_processes |-> piped_processes,
                  log |-> Append(log, Entry("spawn", "spawn", i, Err)), failed |-> i]
            ELSE LET process == CommandSpawn(command, i)
                 IN try_spawn_commands_unforced(commands1, i + 1, process.stdout,
                        Append(piped_processes, [process EXCEPT !.stdout = NoHandle]),
                        Append(log, Entry("spawn", "spawn", i, Ok(NoStatus))))

RECURSIVE try_spawn_commands_unbound(_, _, _, _, _)
try_spawn_commands_unbound(commands, i, last_stdout, piped_processes, log) ==
    IF i > Len(commands)
    THEN [ok |-> TRUE, commands |-> commands, last_stdout |-> last_stdout,
          piped_processes |-> piped_processes, log |-> log, failed |-> 0]
    ELSE LET command == [commands[i] EXCEPT !.stdout = Piped]
             commands1 == [commands EXCEPT ![i] = command]
         IN IF ~CanSpawn(command)
            THEN [ok |-> FALSE, commands |-> commands1, last_stdout |-> NoHandle,
                  piped_processes |-> piped_processes,
                  log |-> Append(log, Entry("spawn", "spawn", i, Err)), failed |-> i]
            ELSE LET process == CommandSpawn(command, i)
                 IN try_spawn_commands_unbound(commands1, i + 1, process.stdout,
                        Append(piped_processes, [process EXCEPT !.stdout = NoHandle]),
                        Append(log, Entry("spawn", "spawn", i, Ok(NoStatus))))

\* The closure try_spawn_commands, from its i-th iteration on. Returns whether
\* every piped command spawned, the commands as the loop left them, the
\* last_stdout still held, the processes spawned and the OS calls made.
RECURSIVE try_spawn_commands(_, _, _, _, _)
try_spawn_commands(commands, i, last_stdout, piped_processes, log) ==
    IF i > Len(commands)
    THEN [ok |-> TRUE, commands |-> commands, last_stdout |-> last_stdout,
          piped_processes |-> piped_processes, log |-> log, failed |-> 0]
    ELSE LET c1 == IF last_stdout # NoHandle
                   THEN [commands[i] EXCEPT !.stdin = FromChild(last_stdout)]
                   ELSE commands[i]
             command == [c1 EXCEPT !.stdout = Piped]
             commands1 == [commands EXCEPT ![i] = command]
         IN IF ~CanSpawn(command)
            THEN [ok |-> FALSE, commands |-> commands1, last_stdout |-> NoHandle,
                  piped_processes |-> piped_processes,
                  log |-> Append(log, Entry("spawn", "spawn", i, Err)), failed |-> i]
            ELSE LET process == CommandSpawn(command, i)
                 IN try_spawn_commands(commands1, i + 1, process.stdout,
                        Append(piped_processes, [process EXCEPT !.stdout = NoHandle]),
                        Append(log, Entry("spawn", "spawn", i, Ok(NoStatus))))

new_pipeline_stdin_of_tail(piped_processes, tail_process, cfg) ==
    [piped_processes |-> piped_processes,
     tail_process |-> [tail_process EXCEPT !.stdin = NoHandle, !.stdout = NoHandle,
                                           !.stderr = NoHandle],
     config |-> [pipefail |-> cfg.pipefail, on_drop |-> cfg.on_drop],
     stdin |-> tail_process.stdin,
     stdout |-> tail_process.stdout,
     stderr |-> tail_process.stderr]

\* The Ok arm of spawn: stdin is taken out of the first spawned Child, stdout
\* and stderr out of the tail, and all is packaged into the Pipeline.
new_pipeline(piped_processes, tail_process, cfg) ==
    LET n == Len(piped_processes)
        first == IF n > 0 THEN piped_processes[1] ELSE tail_process
    IN [piped_processes |-> IF n > 0
                            THEN [piped_processes EXCEPT ![1].stdin = NoHandle]
                            ELSE piped_processes,
        tail_process |-> [tail_process EXCEPT
                            !.stdin = IF n > 0 THEN @ ELSE NoHandle,
                            !.stdout = NoHandle, !.stderr = NoHandle],
        config |-> [pipefail |-> cfg.pipefail, on_drop |-> cfg.on_drop],
        stdin |-> first.stdin,
        stdout |-> tail_process.stdout,
        stderr |-> tail_process.stderr]

\* CommandPipeline::spawn on the builder self; w answers the rollback waits.
\* Returns the builder as spawn left it, the Pipeline (on success), the
\* io::Result and the OS calls made.
spawn(self, w) ==
    LET n == Len(self.piped_commands)
        taken_stdin == self.config.stdin
        self1 == IF taken_stdin = None THEN self
                 ELSE IF n > 0
                      THEN [self EXCEPT !.config.stdin = None,
                                        !.piped_commands[1].stdin = taken_stdin]
                      ELSE [self EXCEPT !.config.stdin = None,
                                        !.tail_command.stdin = taken_stdin]
        r == try_spawn_commands(self1.piped_commands, 1, NoHandle, <<>>, <<>>)
        self2 == [self1 EXCEPT !.piped_commands = r.commands]
    IN IF ~r.ok
       THEN [ok |-> FALSE, self |-> self2, pipeline |-> NoPipeline,
             result |-> SpawnError(r.failed),
             log |-> r.log \o post_error_wait_all(r.piped_processes, w)]
       ELSE LET t1 == IF r.last_stdout # NoHandle
                      THEN [self2.tail_command EXCEPT !.stdin = FromChild(r.last_stdout)]
                      ELSE self2.tail_command
                taken_stdout == self2.config.stdout
                t2 == IF taken_stdout # None THEN [t1 EXCEPT !.stdout = taken_stdout] ELSE t1
                self3 == [self2 EXCEPT !.tail_command = t2, !.config.stdout = None]
            IN IF ~CanSpawn(t2)
               THEN [ok |-> FALSE, self |-> self3, pipeline |-> NoPipeline,
                     result |-> SpawnError(n + 1),
                     log |-> Append(r.log, Entry("spawn", "spawn", n + 1, Err))
                             \o post_error_wait_all(r.piped_processes, w)]
               ELSE [ok |-> TRUE, self |-> self3,
                     pipeline |-> new_pipeline(r.piped_processes,
                                               CommandSpawn(t2, n + 1), self.config),
                     result |-> NoResult,
                     log |-> Append(r.log, Entry("spawn", "spawn", n + 1, Ok(NoStatus)))]

\* -------------------------------------------------------------------- join
\* Option<io::Result<ExitStatus>> first_err_status, with the process it is of.
NoneStatus == [some |-> FALSE, res |-> Err, pid |-> 0]
SomeStatus(res, p) == [some |-> TRUE, res |-> res, pid |-> p]

RECURSIVE wait_loop_last_error(_, _, _, _)
wait_loop_last_error(pl, w, i, first_err_status) ==
    IF i > Len(pl.piped_processes)
    THEN first_err_status
    ELSE LET res == w[i]
         IN wait_loop_last_error(pl, w, i + 1,
                IF /\ pl.config.pipefail
                   /\ ~(res.ok /\ success(res.status))
                THEN SomeStatus(res, pl.piped_processes[i].pid)
                ELSE first_err_status)

\* The wait loop over piped_processes of join / join_with_output, from its
\* i-th iteration on: the value of first_err_status when the loop ends.
RECURSIVE wait_loop(_, _, _, _)
wait_loop(pl, w, i, first_err_status) ==
    IF i > Len(pl.piped_processes)
    THEN first_err_status
    ELSE LET res == w[i]
         IN wait_loop(pl, w, i + 1,
                IF /\ pl.config.pipefail
                   /\ ~first_err_status.some
                   /\ ~(res.ok /\ success(res.status))
                THEN SomeStatus(res, pl.piped_processes[i].pid)
                ELSE first_err_status)

join_waits_until_error(by, pl, w) ==
    LET n == Len(pl.piped_processes)
        all == [i \in 1..n |-> WaitEntry(by, pl.piped_processes[i], w[i])]
               \o <<WaitEntry(by, pl.tail_process, w[n + 1])>>
        failed == {i \in 1..(n + 1) : ~w[i].ok}
    IN IF failed = {} THEN all
       ELSE SubSeq(all, 1, CHOOSE i \in failed : \A j \in failed : i <= j)

\* The OS wait calls of join / join_with_output: every piped process in
\* order, then the tail.
join_waits(by, pl, w) ==
    LET n == Len(pl.piped_processes)
    IN [i \in 1..n |-> WaitEntry(by, pl.piped_processes[i], w[i])]
       \o <<WaitEntry(by, pl.tail_process, w[n + 1])>>

disable_on_drop_omitted(pl) == pl

\* self.config.on_drop = OnDrop::Forget
disable_on_drop(pl) == [pl EXCEPT !.config.on_drop = "Forget"]

\* std Child::wait drops the child's stdin handle before waiting.
Waited(process) == [process EXCEPT !.stdin = NoHandle]

\* The Pipeline after the waits of join / join_with_output: tail_process
\* taken, the exposed stdout as the operation left it.
after_waits(pl, exposed_stdout) ==
    [pl EXCEPT !.piped_processes =
                   [i \in 1..Len(pl.piped_processes) |-> Waited(pl.piped_processes[i])],
               !.tail_process = NoChild,
               !.stdout = exposed_stdout]

\* The value join returns, from first_err_status and the tail's wait result.
join_status(pipefail, first_err_status, tail_status, tail_pid) ==
    IF pipefail /\ first_err_status.some
    THEN IF ~first_err_status.res.ok THEN WaitError(first_err_status.pid)
         ELSE IF ~tail_status.ok THEN WaitError(tail_pid)
         ELSE OkStatus(first_err_status.res.status)
    ELSE IF tail_status.ok THEN OkStatus(tail_status.status) ELSE WaitError(tail_pid)

join_pipefail_always(pl, w) ==
    LET n == Len(pl.piped_processes)
        first_err_status ==
            wait_loop([pl EXCEPT !.config.pipefail = TRUE], w, 1, NoneStatus)
    IN [pipeline |-> disable_on_drop(after_waits(pl, pl.stdout)),
        result |-> join_status(TRUE, first_err_status, w[n + 1], pl.tail_process.pid),
        log |-> join_waits("join", pl, w)]

\* Pipeline::join; w[i] answers the wait on the i-th process (the tail last).
join(pl, w) ==
    LET n == Len(pl.piped_processes)
        first_err_status == wait_loop(pl, w, 1, NoneStatus)
    IN [pipeline |-> disable_on_drop(after_waits(pl, pl.stdout)),
        result |-> join_status(pl.config.pipefail, first_err_status, w[n + 1],
                               pl.tail_process.pid),
        log |-> join_waits("join", pl, w)]

\* std Child::wait_with_output: reads the stdout / stderr handles the Child
\* holds to their end, then waits.
wait_with_output(process, res, bytes) ==
    [ok |-> res.ok,
     status |-> res.status,
     stdout |-> IF process.stdout # NoHandle THEN bytes.out ELSE <<>>,
     stderr |-> IF process.stderr # NoHandle THEN bytes.err ELSE <<>>]

\* The value join_with_output returns.
join_output(pipefail, first_err_status, output, tail_pid) ==
    IF pipefail /\ first_err_status.some
    THEN IF ~first_err_status.res.ok THEN WaitError(first_err_status.pid)
         ELSE IF ~output.ok THEN WaitError(tail_pid)
         ELSE OkOutput(first_err_status.res.status, output.stdout, output.stderr)
    ELSE IF output.ok THEN OkOutput(output.status, output.stdout, output.stderr)
         ELSE WaitError(tail_pid)

\* Pipeline::join_with_output; bytes is what the tail process wrote.
join_with_output(pl, w, bytes) ==
    LET n == Len(pl.piped_processes)
        first_err_status == wait_loop(pl, w, 1, NoneStatus)
        tail == [pl.tail_process EXCEPT !.stdout = pl.stdout]
        output == wait_with_output(tail, w[n + 1], bytes)
    IN [pipeline |-> disable_on_drop(after_waits(pl, NoHandle)),
        result |-> join_output(pl.config.pipefail, first_err_status, output, tail.pid),
        log |-> join_waits("join_with_output", pl, w)]

\* -------------------------------------------------------------------- drop
drop_wait_piped_only(pl, w) ==
    [i \in 1..Len(pl.piped_processes) |-> WaitEntry("drop", pl.piped_processes[i], w[i])]

\* OnDrop::Wait: wait on every piped process, then on the tail if still held.
drop_wait(pl, w) ==
    LET n == Len(pl.piped_processes)
    IN [i \in 1..n |-> WaitEntry("drop", pl.piped_processes[i], w[i])]
       \o (IF pl.tail_process # NoChild
           THEN <<WaitEntry("drop", pl.tail_process, w[n + 1])>>
           ELSE <<>>)

\* OnDrop::Kill: kill then wait every piped process; kill the tail and wait on
\* it if the kill succeeded.
drop_kill(pl, k, w) ==
    LET n == Len(pl.piped_processes)
    IN [j \in 1..(2 * n) |->
            IF j % 2 = 1
            THEN Entry("drop", "kill", pl.piped_processes[(j + 1) \div 2].pid,
                       k[(j + 1) \div 2])
            ELSE WaitEntry("drop", pl.piped_processes[j \div 2], w[j \div 2])]
       \o (IF pl.tail_process # NoChild
           THEN <<Entry("drop", "kill", pl.tail_process.pid, k[n + 1])>>
                \o (IF k[n + 1].ok
                    THEN <<WaitEntry("drop", pl.tail_process, w[n + 1])>>
                    ELSE <<>>)
           ELSE <<>>)

drop_forget_waits(pl, k, w) ==
    CASE pl.config.on_drop = "Forget" -> drop_wait(pl, w)
      [] pl.config.on_drop = "Wait" -> drop_wait(pl, w)
      [] pl.config.on_drop = "Kill" -> drop_kill(pl, k, w)

\* Drop::drop for Pipeline: the OS calls it makes; k answers the kills, w the
\* waits.
drop(pl, k, w) ==
    CASE pl.config.on_drop = "Forget" -> <<>>
      [] pl.config.on_drop = "Wait" -> drop_wait(pl, w)
      [] pl.config.on_drop = "Kill" -> drop_kill(pl, k, w)

\* ------------------------------------------------------------------ inputs
\* The builder as one value (the &mut self of spawn).
Self == [piped_commands |-> piped_commands, tail_command |-> tail_command,
         config |-> config]

NumProcesses(pl) == Len(pl.piped_processes) + 1

\* Answers of the OS to the rollback waits of a spawn of the current builder:
\* one for each process spawned before the stage that fails to spawn.
RollbackInputs ==
    LET stages == Append(piped_commands, tail_command)
        failing == {i \in 1..Len(stages) : ~CanSpawn(stages[i])}
        spawned == IF failing = {} THEN 0
                   ELSE (CHOOSE i \in failing : \A j \in failing : i <= j) - 1
    IN [1..spawned -> DiscardedWaitResults]

\* Answers of the OS to the waits of a join of pl.
JoinInputs(pl) == [1..NumProcesses(pl) -> WaitResults]

\* Answers of the OS to the kills and waits that dropping pl makes.
DropInputs(pl) ==
    LET m == NumProcesses(pl)
        k0 == [i \in 1..m |-> Ok(NoStatus)]
        w0 == [i \in 1..m |-> Ok(Exited(0))]
    IN CASE pl.config.on_drop = "Forget" -> {[k |-> k0, w |-> w0]}
         [] pl.config.on_drop = "Wait" ->
                {[k |-> k0, w |-> w] : w \in [1..m -> DiscardedWaitResults]}
         [] pl.config.on_drop = "Kill" ->
                {[k |-> k, w |-> w] : k \in [1..m -> KillResults],
                                      w \in [1..m -> DiscardedWaitResults]}

TailBytes == [out : TailStdoutBytes, err : TailStderrBytes]

\* ----------------------------------------------------- terminal operations
\* What a terminal operation of the builder leaves behind: s is the outcome
\* of spawn, then (when spawn succeeded) the joined pipeline, its result and
\* the OS calls made after spawn.
Terminal(s, pl, res, log, ph, bytes) ==
    /\ piped_commands' = s.self.piped_commands
    /\ tail_command' = s.self.tail_command
    /\ config' = s.self.config
    /\ pipeline' = pl
    /\ phase' = ph
    /\ result' = res
    /\ os_log' = os_log \o s.log \o log
    /\ tail_wrote' = bytes
    /\ UNCHANGED calls

\* caller: builder.spawn()
Spawn ==
    /\ phase = "builder"
    /\ \E rw \in RollbackInputs :
         LET s == spawn(Self, rw)
         IN Terminal(s, s.pipeline, s.result, <<>>,
                     IF s.ok THEN "running" ELSE "spawn_failed", tail_wrote)
    /\ UNCHANGED io

\* CommandPipeline::status: self.spawn()?.join(); the Pipeline is dropped when
\* join returns.
Status ==
    /\ phase = "builder"
    /\ \E rw \in RollbackInputs :
         LET s == spawn(Self, rw)
         IN IF ~s.ok
            THEN Terminal(s, s.pipeline, s.result, <<>>, "spawn_failed",
                          tail_wrote)
            ELSE \E w \in JoinInputs(s.pipeline) :
                   LET j == join(s.pipeline, w)
                   IN \E d \in DropInputs(j.pipeline) :
                        Terminal(s, j.pipeline, j.result,
                                 j.log \o drop(j.pipeline, d.k, d.w), "joined",
                                 tail_wrote)
    /\ UNCHANGED io

\* CommandPipeline::output: self.spawn()?.join_with_output().
Output ==
    /\ phase = "builder"
    /\ \E rw \in RollbackInputs :
         LET s == spawn(Self, rw)
         IN IF ~s.ok
            THEN Terminal(s, s.pipeline, s.result, <<>>, "spawn_failed",
                          tail_wrote)
            ELSE \E w \in JoinInputs(s.pipeline), bytes \in TailBytes :
                   LET j == join_with_output(s.pipeline, w, bytes)
                   IN \E d \in DropInputs(j.pipeline) :
                        Terminal(s, j.pipeline, j.result,
                                 j.log \o drop(j.pipeline, d.k, d.w), "joined", bytes)
    /\ UNCHANGED io

\* ------------------------------------------- operations on a running pipeline
\* caller: pipeline.join(); the Pipeline is dropped when join returns.
Join ==
    /\ phase = "running"
    /\ \E w \in JoinInputs(pipeline) :
         LET j == join(pipeline, w)
         IN \E d \in DropInputs(j.pipeline) :
              /\ pipeline' = j.pipeline
              /\ result' = j.result
              /\ os_log' = os_log \o j.log \o drop(j.pipeline, d.k, d.w)
    /\ phase' = "joined"
    /\ UNCHANGED <<piped_commands, tail_command, config, tail_wrote, calls, io>>

\* caller: pipeline.join_with_output().
JoinWithOutput ==
    /\ phase = "running"
    /\ \E w \in JoinInputs(pipeline), bytes \in TailBytes :
         LET j == join_with_output(pipeline, w, bytes)
         IN \E d \in DropInputs(j.pipeline) :
              /\ pipeline' = j.pipeline
              /\ result' = j.result
              /\ os_log' = os_log \o j.log \o drop(j.pipeline, d.k, d.w)
              /\ tail_wrote' = bytes
    /\ phase' = "joined"
    /\ UNCHANGED <<piped_commands, tail_command, config, calls, io>>

\* The running pipeline is released without having been joined.
Release ==
    /\ phase = "running"
    /\ \E d \in DropInputs(pipeline) :
         os_log' = os_log \o drop(pipeline, d.k, d.w)
    /\ phase' = "dropped"
    /\ UNCHANGED <<piped_commands, tail_command, config, pipeline, result, tail_wrote, calls, io>>

Next ==
    \/ \E cfg \in StdinCfgs : stdin(cfg)
    \/ \E cfg \in StdoutCfgs : stdout(cfg)
    \/ \E cfg \in StderrCfgs : stderr(cfg)
    \/ \E cfg \in OnDrop : on_drop(cfg)
    \/ \E program \in Programs : pipe(program)
    \/ Spawn
    \/ Status
    \/ Output
    \/ Join
    \/ JoinWithOutput
    \/ Release

Spec == Init /\ [][Next]_vars

\* The same program started from either value of the private pipefail field,
\* which join and join_with_output read.
InitAnyConfig ==
    /\ piped_commands = <<>>
    /\ tail_command \in {NewCommand(p) : p \in Programs}
    /\ config \in {[NewConfig EXCEPT !.pipefail = b] : b \in BOOLEAN}
    /\ pipeline = NoPipeline
    /\ phase = "builder"
    /\ result = NoResult
    /\ os_log = <<>>
    /\ tail_wrote = NoBytes
    /\ calls = {}
    /\ io = NoIO

SpecAnyConfig == InitAnyConfig /\ [][Next]_vars

\* ------------------------------------------------------- reading the OS log
IsJoinEntry(e) == e.by \in {"join", "join_with_output"}
IsDropEntry(e) == e.by = "drop"
IsKillEntry(e) == e.op = "kill"
\* The OS calls made by join / join_with_output, and by Drop::drop.
JoinLog == SelectSeq(os_log, IsJoinEntry)
DropLog == SelectSeq(os_log, IsDropEntry)
\* How many times process p was waited on.
TimesWaited(p) ==
    Cardinality({i \in DOMAIN os_log : os_log[i].op = "wait" /\ os_log[i].pid = p})
\* The stages of the builder in pipeline order, and the first that cannot spawn.
Stages == Append(piped_commands, tail_command)
Unspawnable == {i \in DOMAIN Stages : ~CanSpawn(Stages[i])}
Spawned == phase \in {"running", "joined", "dropped"}

\* -------------------------------------------------------------------- claims

\* C1: across spawn (successful or rolled back), join, join_with_output and
\* release under any policy, every process is waited on at most once.
C1_WaitedAtMostOnce == \A p \in 1..MaxStages : TimesWaited(p) <= 1

\* A three-stage pipeline configured to kill on drop was joined: each of its
\* processes was waited on exactly once.
C1_Witness ==
    /\ phase = "joined"
    /\ config.on_drop = "Kill"
    /\ Len(pipeline.piped_processes) = 2
    /\ \A p \in 1..3 : TimesWaited(p) = 1

\* C2: when stage k fails to spawn, spawn returns that error, there is no
\* running pipeline, stages 1..k-1 were each spawned and then waited on before
\* spawn returned, and no stage after k was spawned. A pipeline runs only if
\* every stage could be spawned.
C2_SpawnFailureRollsBack ==
    /\ Spawned => Unspawnable = {}
    /\ phase = "spawn_failed" =>
         LET k == result.err_pid
         IN /\ result.kind = "spawn_error"
            /\ pipeline = NoPipeline
            /\ k \in Unspawnable /\ \A j \in Unspawnable : k <= j
            /\ Len(os_log) = 2 * k - 1
            /\ \A i \in 1..(k - 1) :
                 /\ os_log[i] = Entry("spawn", "spawn", i, Ok(NoStatus))
                 /\ os_log[k + i].op = "wait" /\ os_log[k + i].pid = i
            /\ os_log[k] = Entry("spawn", "spawn", k, Err)

\* The second of three stages failed to spawn and stage 1 was reaped.
C2_Witness ==
    /\ phase = "spawn_failed"
    /\ Len(Stages) = 3
    /\ result = SpawnError(2)
    /\ TimesWaited(1) = 1

\* C3: with pipefail disabled, join (and status) of a pipeline whose stages
\* all spawned returns the result of waiting on the tail, whatever the
\* non-tail processes exited with.
C3_TailStatusWithoutPipefail ==
    (/\ phase = "joined"
     /\ ~pipeline.config.pipefail
     /\ JoinLog # <<>>
     /\ JoinLog[1].by = "join") =>
        LET tail == JoinLog[Len(JoinLog)]
        IN /\ tail.pid = Len(Stages)
           /\ result = IF tail.res.ok THEN OkStatus(tail.res.status)
                       ELSE WaitError(tail.pid)

\* false | true | true joined without pipefail: the result is stage 3's
\* successful status.
C3_Witness ==
    /\ phase = "joined"
    /\ ~pipeline.config.pipefail
    /\ Len(JoinLog) = 3
    /\ JoinLog[1] = Entry("join", "wait", 1, Ok(Exited(1)))
    /\ JoinLog[2].res = Ok(Exited(0))
    /\ JoinLog[3].res = Ok(Exited(0))
    /\ result = OkStatus(Exited(0))

\* C4: the builder has an operation that sets the pipefail flag: in every
\* state in which the builder can still be configured, some step turns
\* config.pipefail on (so that a running pipeline with pipefail reported the
\* first failing stage's status).
C4_PipefailCanBeEnabled ==
    phase = "builder" => ENABLED (Next /\ config'.pipefail)

\* C5: join and join_with_output wait on every non-tail process in spawn
\* order and then on the tail, also when an earlier wait returned an error: a
\* join that returned, with a status or with an error, has waited on the tail.
C5_JoinWaitsOnAllInOrder ==
    phase = "joined" =>
        /\ Len(JoinLog) = Len(Stages)
        /\ \A i \in DOMAIN JoinLog : JoinLog[i].op = "wait" /\ JoinLog[i].pid = i

\* A pipefail join whose first wait failed returned that error, after having
\* waited on the other two processes.
C5_Witness ==
    /\ phase = "joined"
    /\ pipeline.config.pipefail
    /\ Len(JoinLog) = 3
    /\ ~JoinLog[1].res.ok
    /\ result = WaitError(1)
    /\ JoinLog[3].pid = 3

\* C6: a wait that fails during join or join_with_output, on any process, is
\* surfaced as the error result of that join.
C6_WaitFailureSurfaced ==
    (phase = "joined" /\ \E i \in DOMAIN JoinLog : ~JoinLog[i].res.ok)
        => result.kind = "wait_error"

\* C7: after join or join_with_output ran, the release of the pipeline makes
\* no wait and no kill call, whatever policy was configured.
C7_NoDropActionAfterJoin == phase = "joined" => DropLog = <<>>

\* A three-stage pipeline configured to wait on drop was joined and released.
C7_Witness ==
    /\ phase = "joined"
    /\ config.on_drop = "Wait"
    /\ Len(JoinLog) = 3
    /\ DropLog = <<>>

\* C8: a pipeline released without having been joined gets the configured
\* policy (wait unless on_drop was called) applied once, to the non-tail
\* processes in spawn order and then the tail: wait waits on each process
\* whatever the earlier waits answered, kill sends each a kill, forget makes
\* no call.
C8_PolicyAppliedOnRelease ==
    /\ "on_drop" \notin calls => config.on_drop = "Wait"
    /\ phase = "dropped" =>
         LET kills == SelectSeq(DropLog, IsKillEntry)
         IN CASE config.on_drop = "Forget" -> DropLog = <<>>
              [] config.on_drop = "Wait" ->
                    /\ Len(DropLog) = Len(Stages)
                    /\ \A i \in DOMAIN DropLog :
                         DropLog[i].op = "wait" /\ DropLog[i].pid = i
              [] config.on_drop = "Kill" ->
                    /\ Len(kills) = Len(Stages)
                    /\ \A i \in DOMAIN kills : kills[i].pid = i

\* A three-stage pipeline built without calling on_drop was released: all
\* three processes were waited on although the first wait failed.
C8_Witness ==
    /\ phase = "dropped"
    /\ "on_drop" \notin calls
    /\ Len(DropLog) = 3
    /\ ~DropLog[1].res.ok
    /\ DropLog[3] = Entry("drop", "wait", 3, Ok(Exited(0)))

\* C9: under the kill policy a process, non-tail or tail, whose kill returned
\* an error is not waited on.
C9_NoWaitAfterFailedKill ==
    phase = "dropped" =>
        \A i \in DOMAIN DropLog :
            (DropLog[i].op = "kill" /\ ~DropLog[i].res.ok)
                => \A j \in DOMAIN DropLog :
                       ~(DropLog[j].op = "wait" /\ DropLog[j].pid = DropLog[i].pid)

\* C10: join_with_output after spawn, as output() runs it, on a pipeline
\* without pipefail whose processes all exit successfully returns the bytes
\* the tail wrote to its standard output and a success status, whether or not
\* the caller configured the tail's stdout.
C10_OutputCapturesTailStdout ==
    (/\ phase = "joined"
     /\ ~pipeline.config.pipefail
     /\ JoinLog # <<>>
     /\ \A i \in DOMAIN JoinLog :
          JoinLog[i].by = "join_with_output" /\ JoinLog[i].res = Ok(Exited(0)))
        => /\ result.kind = "output"
           /\ success(result.status)
           /\ result.stdout = tail_wrote.out

\* What the tail wrote into the pipes the builder asked for: the bytes a full
\* read of the tail's piped stdout / stderr yields.
TailPipedStdout == IF Stages[Len(Stages)].stdout = Piped THEN tail_wrote.out ELSE <<>>
TailPipedStderr == IF Stages[Len(Stages)].stderr = Piped THEN tail_wrote.err ELSE <<>>
JoinedWithOutput ==
    /\ phase = "joined"
    /\ JoinLog # <<>>
    /\ JoinLog[1].by = "join_with_output"
    /\ result.kind = "output"

\* C11: when the tail's standard error is configured as a pipe,
\* join_with_output reads it fully: the result's stderr bytes are the bytes
\* the tail wrote to standard error.
C11_StderrCaptured ==
    (JoinedWithOutput /\ Stages[Len(Stages)].stderr = Piped)
        => result.stderr = tail_wrote.err

C13_ExposedStreams ==
    [][(phase = "builder" /\ phase' \in {"running", "joined"}) =>
          LET n == Len(Stages)
          IN /\ Stages'[1].stdin = (IF config.stdin = None THEN Stages[1].stdin
                                    ELSE config.stdin)
             /\ \A i \in 2..n : Stages'[i].stdin = FromChild(Handle(i - 1, "stdout"))
             /\ pipeline'.stdin = (IF config.stdin = Piped THEN Handle(1, "stdin")
                                   ELSE NoHandle)
             /\ phase' = "running" =>
                  /\ pipeline'.stdout = (IF config.stdout = Piped
                                         THEN Handle(n, "stdout") ELSE NoHandle)
                  /\ pipeline'.stderr = (IF tail_command.stderr = Piped
                                         THEN Handle(n, "stderr") ELSE NoHandle)]_vars

\* A two-stage pipeline with all three streams piped is running: stdin is
\* stage 1's, stdout and stderr are the tail's.
C13_Witness ==
    /\ phase = "running"
    /\ Len(Stages) = 2
    /\ pipeline.stdin = Handle(1, "stdin")
    /\ pipeline.stdout = Handle(2, "stdout")
    /\ pipeline.stderr = Handle(2, "stderr")

\* The parent-side endpoints of the pipes that connect stage i to stage i+1.
IntermediateEndpoints ==
    {Handle(i, "stdout") : i \in 1..(Len(Stages) - 1)}
        \cup {Handle(i, "stdin") : i \in 2..Len(Stages)}

\* C14: once spawned, the pipeline's public stdin/stdout/stderr hold nothing but
\* the head stage's stdin and the tail's stdout and stderr, never an endpoint
\* of a pipe between two stages; every non-tail stage's output is a pipe whose
\* read end went to the next stage and is not left in the pipeline's handles.
C14_IntermediateEndpointsInternal ==
    Spawned =>
        LET n == Len(Stages)
        IN /\ {pipeline.stdin, pipeline.stdout, pipeline.stderr}
                  \cap IntermediateEndpoints = {}
           /\ pipeline.stdin \in {NoHandle, Handle(1, "stdin")}
           /\ pipeline.stdout \in {NoHandle, Handle(n, "stdout")}
           /\ pipeline.stderr \in {NoHandle, Handle(n, "stderr")}
           /\ \A i \in 1..(n - 1) :
                 /\ Stages[i].stdout = Piped
                 /\ Stages[i + 1].stdin.kind = "child_stdout"
                 /\ pipeline.piped_processes[i].stdout = NoHandle

\* A three-stage pipeline is running with two internal pipes and the caller
\* holding the head's stdin and the tail's stdout.
C14_Witness ==
    /\ phase = "running"
    /\ Len(Stages) = 3
    /\ Cardinality(IntermediateEndpoints) = 4
    /\ pipeline.stdin = Handle(1, "stdin")
    /\ pipeline.stdout = Handle(3, "stdout")

\* C15: when spawn has returned a spawn error, no parent-side value still holds
\* an endpoint of a pipe created during the attempt: in particular no command
\* of the builder keeps a previous stage's read end as its stdin.
C15_NoEndpointHeldAfterFailure ==
    phase = "spawn_failed" =>
        \A i \in DOMAIN Stages : Stages[i].stdin.kind # "child_stdout"

\* The non-tail waits of the join, by position, that reported a status other
\* than success.
FailedStages == {i \in 1..(Len(JoinLog) - 1) : ~success(JoinLog[i].res.status)}

\* C16: with pipefail on and every wait returning a status, join and
\* join_with_output report the status of the first non-tail process, in spawn
\* order, whose status is not success, and the tail's status if there is none.
C16_PipefailFirstFailure ==
    (/\ phase = "joined"
     /\ pipeline.config.pipefail
     /\ \A i \in DOMAIN JoinLog : JoinLog[i].res.ok)
        => /\ result.kind \in {"status", "output"}
           /\ result.status =
                 IF FailedStages = {}
                 THEN JoinLog[Len(JoinLog)].res.status
                 ELSE JoinLog[CHOOSE i \in FailedStages :
                                  \A j \in FailedStages : i <= j].res.status

\* Three stages joined under pipefail: stage 1 was killed by a signal, stage 2
\* exited with 1, the tail succeeded, and the signal status is reported.
C16_Witness ==
    /\ phase = "joined"
    /\ pipeline.config.pipefail
    /\ Len(JoinLog) = 3
    /\ JoinLog[1].res = Ok(Signaled(9))
    /\ JoinLog[2].res = Ok(Exited(1))
    /\ JoinLog[3].res = Ok(Exited(0))
    /\ result.status = Signaled(9)

IsSpawnEntry(e) == e.op = "spawn"
\* The spawn attempts made, in the order they were made.
SpawnLog == SelectSeq(os_log, IsSpawnEntry)

\* C17: spawn attempts are made in pipeline order, stage k+1 only after stage
\* k spawned, each with its input bound to the read end of the pipe made for
\* the stage before it, the tail last; a running pipeline holds one handle per
\* non-tail stage, in spawn order.
C17_SpawnInPipelineOrder ==
    /\ Len(SpawnLog) <= Len(Stages)
    /\ \A k \in DOMAIN SpawnLog :
          /\ SpawnLog[k].pid = k
          /\ k < Len(SpawnLog) => SpawnLog[k].res.ok
          /\ k > 1 => /\ Stages[k - 1].stdout = Piped
                      /\ Stages[k].stdin = FromChild(Handle(k - 1, "stdout"))
    /\ Spawned =>
          /\ Len(SpawnLog) = Len(Stages)
          /\ SpawnLog[Len(SpawnLog)].res.ok
          /\ Len(pipeline.piped_processes) = Len(Stages) - 1
          /\ \A i \in DOMAIN pipeline.piped_processes :
                pipeline.piped_processes[i].pid = i

\* Three stages were spawned in order and run with two non-tail handles.
C17_Witness ==
    /\ phase = "running"
    /\ Len(SpawnLog) = 3
    /\ Len(pipeline.piped_processes) = 2
    /\ Stages[2].stdin = FromChild(Handle(1, "stdout"))
    /\ Stages[3].stdin = FromChild(Handle(2, "stdout"))

\* stderr() is the only operation that gives a command a standard-error target.
StderrConfigured == \E i \in DOMAIN Stages : Stages[i].stderr # Default

\* C18: however stderr() and pipe() calls were interleaved on the builder, the
\* spawned pipeline has the configured standard-error target on the tail stage
\* and on no intermediate stage.
C18_StderrOnTailOnly ==
    Spawned =>
        \A i \in DOMAIN Stages :
            Stages[i].stderr = IF i = Len(Stages) /\ StderrConfigured
                               THEN Piped ELSE Default

\* ------------------------------------------- pipes and processes, step by step
\* The running pipeline with its blocking calls split at their suspension
\* points. Every stage copies its standard input to its standard output and
\* exits at end of input. A pipe holds at most PipeCapacity bytes; io.buf[i] is
\* what the pipe on process i's standard output holds. A head stage whose
\* standard input is not a pipe has io.src bytes left to read from it.
PipeCapacity == 1
\* The input may exceed what all the pipes of the longest pipeline hold.
MaxBytes == MaxStages * PipeCapacity + 1
\* The blocking calls on a running pipeline: join, join_with_output, and
\* Drop::drop under OnDrop::Wait.
ParentOps == {"join", "join_with_output", "drop"}

\* Whether process i writes its standard output to a pipe.
StdoutIsPipe(i) == Stages[i].stdout = Piped

\* The processes of pl have been started; src is what the head process, head
\* its command, will find on a standard input that is not a pipe.
StartIO(pl, head, src) ==
    [NoIO EXCEPT !.op = "idle",
                 !.src = IF head.stdin = Piped THEN 0 ELSE src,
                 !.buf = [i \in 1..NumProcesses(pl) |-> 0]]

\* caller: builder.spawn(); the processes then run on their own.
SpawnIO ==
    /\ phase = "builder"
    /\ \E rw \in RollbackInputs, src \in 0..MaxBytes :
         LET s == spawn(Self, rw)
         IN /\ Terminal(s, s.pipeline, s.result, <<>>,
                        IF s.ok THEN "running" ELSE "spawn_failed", tail_wrote)
            /\ io' = IF s.ok
                     THEN StartIO(s.pipeline,
                                  Append(s.self.piped_commands, s.self.tail_command)[1],
                                  src)
                     ELSE NoIO

\* caller: drop(pipeline.stdin.take()), closing the write end of the head's
\* standard input.
CloseStdin ==
    /\ phase = "running"
    /\ io.op = "idle"
    /\ pipeline.stdin # NoHandle
    /\ pipeline' = [pipeline EXCEPT !.stdin = NoHandle]
    /\ UNCHANGED <<piped_commands, tail_command, config, phase, result, os_log,
                   tail_wrote, calls, io>>

\* caller: pipeline.join(), pipeline.join_with_output() or the release of the
\* pipeline under OnDrop::Wait is entered; the first wait is on process 1.
Begin(op) ==
    /\ phase = "running"
    /\ io.op = "idle"
    /\ op = "drop" => pipeline.config.on_drop = "Wait"
    /\ io' = [io EXCEPT !.op = op, !.pc = 1]
    /\ UNCHANGED <<piped_commands, tail_command, config, pipeline, phase, result,
                   os_log, tail_wrote, calls>>

\* Process i copies one byte: it reads when its input has a byte and writes
\* when its output, if a pipe, has room.
Move(i) ==
    /\ phase = "running"
    /\ i \in 1..NumProcesses(pipeline)
    /\ i \notin io.exited
    /\ IF i = 1 THEN io.src > 0 ELSE io.buf[i - 1] > 0
    /\ StdoutIsPipe(i) => io.buf[i] < PipeCapacity
    /\ io' = [io EXCEPT
                !.src = IF i = 1 THEN @ - 1 ELSE @,
                !.buf = [k \in DOMAIN @ |->
                            IF k = i - 1 THEN @[k] - 1
                            ELSE IF k = i /\ StdoutIsPipe(i) THEN @[k] + 1
                            ELSE @[k]]]
    /\ UNCHANGED <<piped_commands, tail_command, config, pipeline, phase, result,
                   os_log, tail_wrote, calls>>

\* Process i reads end of input and exits: its input is empty and, if a pipe,
\* has no open write end left (the head's write end is Pipeline.stdin, a later
\* stage's is the stage before it).
Exit(i) ==
    /\ phase = "running"
    /\ i \in 1..NumProcesses(pipeline)
    /\ i \notin io.exited
    /\ IF i = 1
       THEN io.src = 0 /\ pipeline.stdin = NoHandle
       ELSE io.buf[i - 1] = 0 /\ (i - 1) \in io.exited
    /\ io' = [io EXCEPT !.exited = @ \cup {i}]
    /\ UNCHANGED <<piped_commands, tail_command, config, pipeline, phase, result,
                   os_log, tail_wrote, calls>>

\* What the parent has read from the tail's standard output.
BytesRead == [out |-> [k \in 1..io.out |-> "a"], err |-> <<>>]

\* The blocking call returns: the pipeline, result and OS calls are those of
\* the whole handler, every wait having answered with a successful exit.
Return ==
    LET w == [k \in 1..NumProcesses(pipeline) |-> Ok(Exited(0))]
        j == CASE io.op = "join" -> join(pipeline, w)
               [] io.op = "join_with_output" -> join_with_output(pipeline, w, BytesRead)
               [] OTHER -> [pipeline |-> pipeline, result |-> result, log |-> <<>>]
    IN /\ pipeline' = j.pipeline
       /\ result' = j.result
       /\ os_log' = os_log \o j.log \o drop(j.pipeline, w, w)
       /\ tail_wrote' = IF io.op = "join_with_output" THEN BytesRead ELSE tail_wrote
       /\ phase' = IF io.op = "drop" THEN "dropped" ELSE "joined"
       /\ io' = [io EXCEPT !.op = "done"]
       /\ UNCHANGED <<piped_commands, tail_command, config, calls>>

\* The wait the parent is blocked in returns once its process has exited; the
\* call goes on to the next process, and returns after the tail. In
\* join_with_output the wait on the tail is that of wait_with_output, made
\* after the tail's standard output was read to its end.
WaitStep ==
    /\ phase = "running"
    /\ io.op \in ParentOps
    /\ io.pc \in io.exited
    /\ (/\ io.op = "join_with_output"
        /\ io.pc = NumProcesses(pipeline)
        /\ pipeline.stdout # NoHandle) => io.eof
    /\ IF io.pc < NumProcesses(pipeline)
       THEN /\ io' = [io EXCEPT !.pc = @ + 1]
            /\ UNCHANGED <<piped_commands, tail_command, config, pipeline, phase,
                           result, os_log, tail_wrote, calls>>
       ELSE Return

\* wait_with_output reads the tail's standard output: a byte when the pipe
\* holds one, end of file when it is empty and the tail has exited.
ReadStep ==
    /\ phase = "running"
    /\ io.op = "join_with_output"
    /\ io.pc = NumProcesses(pipeline)
    /\ pipeline.stdout # NoHandle
    /\ ~io.eof
    /\ IF io.buf[io.pc] > 0
       THEN io' = [io EXCEPT !.buf[io.pc] = @ - 1, !.out = @ + 1]
       ELSE /\ io.pc \in io.exited
            /\ io' = [io EXCEPT !.eof = TRUE]
    /\ UNCHANGED <<piped_commands, tail_command, config, pipeline, phase, result,
                   os_log, tail_wrote, calls>>

NextIO ==
    \/ \E cfg \in StdinCfgs : stdin(cfg)
    \/ \E cfg \in StdoutCfgs : stdout(cfg)
    \/ \E program \in Programs : pipe(program)
    \/ SpawnIO
    \/ CloseStdin
    \/ \E op \in ParentOps : Begin(op)
    \/ \E i \in 1..MaxStages : Move(i)
    \/ \E i \in 1..MaxStages : Exit(i)
    \/ WaitStep
    \/ ReadStep

\* The OS schedules every process that can run, and a blocking call of the
\* parent returns once what it blocks on has happened.
FairIO ==
    /\ \A i \in 1..MaxStages : WF_vars(Move(i)) /\ WF_vars(Exit(i))
    /\ WF_vars(WaitStep)
    /\ WF_vars(ReadStep)

SpecIO == Init /\ [][NextIO]_vars /\ FairIO

\* C19: with at least one non-tail stage and the tail's output a pipe, stages
\* that exit at end of input, and no open head-input pipe in the way,
\* join_with_output eventually returns, whatever the size of the output
\* against the capacity of the pipes.
C19_JoinWithOutputReturns ==
    (/\ io.op = "join_with_output"
     /\ NumProcesses(pipeline) >= 2
     /\ StdoutIsPipe(NumProcesses(pipeline))
     /\ pipeline.stdin = NoHandle)
        ~> (io.op = "done")

\* C20: with the head input a pipe whose write end the caller left in the
\* running pipeline, join, join_with_output and the release under the wait
\* policy eventually return.
C20_ReturnsWithStdinHeld ==
    (io.op \in ParentOps /\ pipeline.stdin # NoHandle) ~> (io.op = "done")

====
